---- MODULE Spec2Model ----
(***************************************************************************)
(* todo-server: a read-only HTTP service over two SQLite tables.           *)
(*                                                                         *)
(* The model follows src/todo-server/src/main.rs: the bootstrap sequence   *)
(* of main, the router built by app, the two handlers, the two queries and *)
(* AppError::into_response.  The database is changed only by its           *)
(* environment (direct manipulation of the tables).                        *)
(*                                                                         *)
(* Integers of the database are 64 bits wide and the path parameter is     *)
(* parsed as a 32-bit integer.  A database integer is kept as its sign and *)
(* its decimal digits, so values above 2^31 are exact; the parsed path     *)
(* parameter is an integer of the model, checked against the i32 range.    *)
(***************************************************************************)
EXTENDS Integers, Sequences, FiniteSets, TLC

\* ------------------------------------------------------------------ bounds
MaxLists == 2
MaxTodos == 3

\* ------------------------------------------------------- integer widths
I32_MAX == 2147483647
I32_MIN == -I32_MAX - 1

\* A 64-bit database integer: sign and magnitude in decimal, canonical
\* (no leading zero, no negative zero).
Num(neg, mag) == [neg |-> neg, mag |-> mag]

I64_MAX_MAG == <<9,2,2,3,3,7,2,0,3,6,8,5,4,7,7,5,8,0,7>>
I64_MIN_MAG == <<9,2,2,3,3,7,2,0,3,6,8,5,4,7,7,5,8,0,8>>

\* x < y for two canonical magnitudes.
MagLess(x, y) ==
    \/ Len(x) < Len(y)
    \/ /\ Len(x) = Len(y)
       /\ \E i \in 1..Len(x) :
            /\ x[i] < y[i]
            /\ \A j \in 1..(i-1) : x[j] = y[j]

\* a < b for two database integers (the order of ORDER BY id).
NumLess(a, b) ==
    IF a.neg # b.neg THEN a.neg
    ELSE IF a.neg THEN MagLess(b.mag, a.mag)
    ELSE MagLess(a.mag, b.mag)

InI64(n) ==
    IF n.neg THEN ~MagLess(I64_MIN_MAG, n.mag)
    ELSE ~MagLess(I64_MAX_MAG, n.mag)

\* ---------------------------------------------------------- path text
\* A path segment is a sequence of characters.
to_digit(c) ==
    CASE c = "0" -> 0 [] c = "1" -> 1 [] c = "2" -> 2 [] c = "3" -> 3
      [] c = "4" -> 4 [] c = "5" -> 5 [] c = "6" -> 6 [] c = "7" -> 7
      [] c = "8" -> 8 [] c = "9" -> 9 [] OTHER -> -1

ParseOk(v)   == [ok |-> TRUE,  val |-> v, kind |-> "none"]
ParseErr(k)  == [ok |-> FALSE, val |-> 0, kind |-> k]

\* The digit loop of i32::from_str: checked_mul(10) then checked_add(d)
\* for a positive number, checked_sub(d) for a negative one.
RECURSIVE from_str_digits(_, _, _)
from_str_digits(digits, result, positive) ==
    IF digits = <<>> THEN ParseOk(result)
    ELSE LET d == to_digit(Head(digits)) IN
         IF d < 0 THEN ParseErr("InvalidDigit")
         ELSE IF positive
              THEN IF result > I32_MAX \div 10 THEN ParseErr("PosOverflow")
                   ELSE IF result * 10 > I32_MAX - d THEN ParseErr("PosOverflow")
                   ELSE from_str_digits(Tail(digits), result * 10 + d, positive)
              ELSE IF result < -(I32_MAX \div 10) THEN ParseErr("NegOverflow")
                   ELSE IF result * 10 < I32_MIN + d THEN ParseErr("NegOverflow")
                   ELSE from_str_digits(Tail(digits), result * 10 - d, positive)

\* Variant: a segment that does not parse is taken as 0.
parse_i32_lenient(src) ==
    LET p == IF src = <<>> THEN ParseErr("Empty")
             ELSE IF Head(src) \in {"+", "-"}
                  THEN IF Len(src) = 1 THEN ParseErr("InvalidDigit")
                       ELSE from_str_digits(Tail(src), 0, Head(src) = "+")
                  ELSE from_str_digits(src, 0, TRUE)
    IN  IF p.ok THEN p ELSE ParseOk(0)

\* Path<i32>: the segment parsed with str::parse::<i32>().
parse_i32(src) ==
    IF src = <<>> THEN ParseErr("Empty")
    ELSE IF Head(src) \in {"+", "-"}
         THEN IF Len(src) = 1 THEN ParseErr("InvalidDigit")
              ELSE from_str_digits(Tail(src), 0, Head(src) = "+")
         ELSE from_str_digits(src, 0, TRUE)

\* Decimal digits of the magnitude of n, for n <= 0 (so that I32_MIN needs
\* no negation).
RECURSIVE NegDigits(_)
NegDigits(n) ==
    LET r == (10 - (n % 10)) % 10
        q == (n + r) \div 10
    IN  IF q = 0 THEN <<r>> ELSE Append(NegDigits(q), r)

\* The i32 bound to the query's parameter, widened to a database integer.
bind_i32(n) ==
    IF n < 0 THEN Num(TRUE, NegDigits(n)) ELSE Num(FALSE, NegDigits(-n))

\* ------------------------------------------------------------- queries
\* ORDER BY id: insertion of a row into an ascending sequence.
RECURSIVE InsertById(_, _)
InsertById(row, sorted) ==
    IF sorted = <<>> THEN <<row>>
    ELSE IF NumLess(row.id, Head(sorted).id) THEN <<row>> \o sorted
    ELSE <<Head(sorted)>> \o InsertById(row, Tail(sorted))

RECURSIVE OrderById(_)
OrderById(rows) ==
    IF rows = <<>> THEN <<>>
    ELSE InsertById(Head(rows), OrderById(Tail(rows)))

\* Variant: the query without ORDER BY id.
get_lists_unordered(table) == table

\* SELECT id, name FROM lists ORDER BY id
get_lists(table) == OrderById(table)

\* Variant: the query without WHERE list_id = ?.
get_todos_unfiltered(table, list_id) == OrderById(table)

\* SELECT id, text, checked, list_id FROM todos WHERE list_id = ? ORDER BY id
get_todos(table, list_id) ==
    OrderById(SelectSeq(table, LAMBDA row : row.list_id = bind_i32(list_id)))

\* ----------------------------------------------------------- responses
JsonArray(rows)  == [tag |-> "array",  elems |-> rows]
JsonObject(kv)   == [tag |-> "object", elems |-> kv]
PlainText(t)     == [tag |-> "text",   elems |-> <<t>>]
NoBody           == [tag |-> "none",   elems |-> <<>>]

\* Ok(Json(rows)).into_response()
OkJson(rows) == [status |-> 200, body |-> JsonArray(rows)]

\* Variant: the inner error's text is the message.
into_response_leaking(inner) ==
    [status |-> 500,
     body   |-> JsonObject(<< <<"error", inner>> >>)]

\* AppError::into_response: the inner error is dropped.
into_response(inner) ==
    [status |-> 500,
     body   |-> JsonObject(<< <<"error", "Something went wrong">> >>)]

\* The rejection of the Path extractor.
PathRejection == [status |-> 400, body |-> PlainText("Invalid URL")]

\* Variant: an empty result is an error (fetch_one's RowNotFound).
handle_get_lists_fetch_one(table, fault) ==
    IF fault # "none" THEN into_response(fault)
    ELSE IF table = <<>> THEN into_response("RowNotFound")
    ELSE OkJson(OrderById(table))

\* GET /lists: handle_get_lists with the outcome of the query's fetch_all
\* (fault = "none" when the database answers).
handle_get_lists(table, fault) ==
    IF fault # "none" THEN into_response(fault)
    ELSE OkJson(get_lists(table))

\* GET /lists/:id/todos: handle_get_todos, reached once the path is parsed.
handle_get_todos(table, list_id, fault) ==
    IF fault # "none" THEN into_response(fault)
    ELSE OkJson(get_todos(table, list_id))

\* ------------------------------------------------- TraceLayer's events
LogStarted       == <<"DEBUG", "started processing request">>
LogFinished(st)  == <<"DEBUG", "finished processing request", ToString(st)>>
LogFailed(st)    == <<"ERROR", "response failed", "classification=Status code",
                      ToString(st)>>

\* on_response, then on_failure for a 5xx status.
TraceResponse(status) ==
    {LogFinished(status)} \cup (IF status >= 500 THEN {LogFailed(status)} ELSE {})

\* ---------------------------------------------------------- input sets
N1   == Num(FALSE, <<1>>)
N2   == Num(FALSE, <<2>>)
N5   == Num(FALSE, <<5>>)
N9   == Num(FALSE, <<9>>)
NBig == Num(FALSE, <<2,1,4,7,4,8,3,6,4,8>>)

\* Rows the environment may insert.  The names are not in the order of the
\* ids; a todo may be put in any list.
ListRows == { [id |-> N1,   name |-> "groceries"],
              [id |-> N2,   name |-> "chores"],
              [id |-> NBig, name |-> "errands"] }
TodoRows == { [id |-> N2, text |-> "milk",  checked |-> TRUE],
              [id |-> N5, text |-> "eggs",  checked |-> FALSE],
              [id |-> N9, text |-> "sweep", checked |-> FALSE] }
ListIds  == {r.id : r \in ListRows}

SegBig   == <<"2","1","4","7","4","8","3","6","4","8">>
PathSegs == { <<"1">>, SegBig, <<"a","b","c">> }

DbFaults == {"pool timed out", "unable to open database file"}
Conns    == {"c1", "c2"}

\* -------------------------------------------------------------- state
VARIABLES
    pc,       \* position of main
    done,     \* the startup steps that succeeded, in order
    failure,  \* why the process terminated ("none" while it runs)
    schema,   \* the migrations have been applied to the database
    lists,    \* rows of table lists, in insertion order
    todos,    \* rows of table todos, in insertion order
    writes,   \* number of writes made to the database by its environment
    req       \* the request on each connection; req[c].fresh records that
              \* the database has not been written since c was answered

vars == <<pc, done, failure, schema, lists, todos, writes, req>>

Idle ==
    [pc |-> "idle", route |-> "none", seg |-> <<>>, list_id |-> 0,
     status |-> 0, body |-> NoBody, fault |-> "none", fresh |-> FALSE,
     queried |-> FALSE, log |-> {}]

Init ==
    /\ pc = "start"
    /\ done = <<>>
    /\ failure = "none"
    /\ schema = FALSE
    /\ lists = <<>>
    /\ todos = <<>>
    /\ writes = 0
    /\ req = [c \in Conns |-> Idle]

db    == <<schema, lists, todos, writes>>
boot  == <<pc, done, failure>>

\* ------------------------------------------------------------- main
\* env::var("DATABASE_URL")?
ReadConfig ==
    /\ pc = "start"
    /\ \/ /\ pc' = "configured"
          /\ done' = Append(done, "config")
          /\ UNCHANGED failure
       \/ /\ pc' = "exited"
          /\ failure' = "config"
          /\ UNCHANGED done
    /\ UNCHANGED <<db, req>>

\* SqlitePool::connect(..).await?
Connect ==
    /\ pc = "configured"
    /\ \/ /\ pc' = "connected"
          /\ done' = Append(done, "connect")
          /\ UNCHANGED failure
       \/ /\ pc' = "exited"
          /\ failure' = "connect"
          /\ UNCHANGED done
    /\ UNCHANGED <<db, req>>

\* Variant: the result of the migration is not propagated with ?.
MigrateUnchecked ==
    /\ pc = "connected"
    /\ pc' = "migrated"
    /\ \/ /\ done' = Append(done, "migrate")
          /\ schema' = TRUE
       \/ UNCHANGED <<done, schema>>
    /\ UNCHANGED <<failure, lists, todos, writes, req>>

\* sqlx::migrate!().run(&pool).await?
Migrate ==
    /\ pc = "connected"
    /\ \/ /\ pc' = "migrated"
          /\ done' = Append(done, "migrate")
          /\ schema' = TRUE
          /\ UNCHANGED failure
       \/ /\ pc' = "exited"
          /\ failure' = "migrate"
          /\ UNCHANGED <<done, schema>>
    /\ UNCHANGED <<lists, todos, writes, req>>

\* tracing_subscriber::registry()...init(); let app = app(pool);
InitLoggingAndRouter ==
    /\ pc = "migrated"
    /\ pc' = "ready"
    /\ done' = done \o <<"logging", "router">>
    /\ UNCHANGED <<failure, db, req>>

\* axum::Server::bind(&addr).serve(..): bind panics when the address is taken.
Bind ==
    /\ pc = "ready"
    /\ \/ /\ pc' = "serving"
          /\ done' = Append(done, "bind")
          /\ UNCHANGED failure
       \/ /\ pc' = "exited"
          /\ failure' = "bind"
          /\ UNCHANGED done
    /\ UNCHANGED <<db, req>>

\* ------------------------------------------- the database's environment
\* A write ends the period in which an answered request saw the current rows.
Stale == [c \in Conns |-> [req[c] EXCEPT !.fresh = FALSE]]

\* INSERT INTO lists: id is the primary key.
InsertList(id, name) ==
    /\ schema
    /\ Len(lists) < MaxLists
    /\ \A i \in 1..Len(lists) : lists[i].id # id
    /\ lists' = Append(lists, [id |-> id, name |-> name])
    /\ writes' = writes + 1
    /\ req' = Stale
    /\ UNCHANGED <<boot, schema, todos>>

\* INSERT INTO todos: id is the primary key, list_id references lists(id).
InsertTodo(id, text, checked, list_id) ==
    /\ schema
    /\ Len(todos) < MaxTodos
    /\ \A i \in 1..Len(todos) : todos[i].id # id
    /\ \E i \in 1..Len(lists) : lists[i].id = list_id
    /\ todos' = Append(todos, [id |-> id, text |-> text, checked |-> checked,
                               list_id |-> list_id])
    /\ writes' = writes + 1
    /\ req' = Stale
    /\ UNCHANGED <<boot, schema, lists>>

\* ------------------------------------------------------------ requests
\* The router receives GET /lists: the handler starts and awaits the query.
RouteLists(c) ==
    /\ pc = "serving"
    /\ req[c].pc = "idle"
    /\ req' = [req EXCEPT ![c] =
                 [Idle EXCEPT !.pc = "handler", !.route = "lists",
                              !.log = {LogStarted}]]
    /\ UNCHANGED <<boot, db>>

\* The router receives GET /lists/<seg>/todos: Path<i32> is extracted; a
\* rejection is answered without calling the handler.
RouteTodos(c, seg) ==
    /\ pc = "serving"
    /\ req[c].pc = "idle"
    /\ LET p == parse_i32(seg) IN
       req' = [req EXCEPT ![c] =
                 IF p.ok
                 THEN [Idle EXCEPT !.pc = "handler", !.route = "todos",
                                   !.seg = seg, !.list_id = p.val,
                                   !.log = {LogStarted}]
                 ELSE [Idle EXCEPT !.pc = "responded", !.route = "todos",
                                   !.seg = seg, !.fresh = TRUE,
                                   !.status = PathRejection.status,
                                   !.body = PathRejection.body,
                                   !.log = {LogStarted}
                                      \cup TraceResponse(PathRejection.status)]]
    /\ UNCHANGED <<boot, db>>

Respond(c, resp, fault) ==
    req' = [req EXCEPT ![c].pc = "responded",
                       ![c].status = resp.status,
                       ![c].body = resp.body,
                       ![c].fault = fault,
                       ![c].fresh = TRUE,
                       ![c].queried = TRUE,
                       ![c].log = @ \cup TraceResponse(resp.status)]

\* handle_get_lists runs its query and answers.
HandleGetLists(c) ==
    /\ req[c].pc = "handler"
    /\ req[c].route = "lists"
    /\ \E fault \in {"none"} \cup DbFaults :
         Respond(c, handle_get_lists(lists, fault), fault)
    /\ UNCHANGED <<boot, db>>

\* Variant: the query removes the rows it returns.
HandleGetTodosConsuming(c) ==
    /\ req[c].pc = "handler"
    /\ req[c].route = "todos"
    /\ \E fault \in {"none"} \cup DbFaults :
         /\ Respond(c, handle_get_todos(todos, req[c].list_id, fault), fault)
         /\ todos' = IF fault # "none" THEN todos
                     ELSE SelectSeq(todos,
                            LAMBDA row : row.list_id # bind_i32(req[c].list_id))
    /\ UNCHANGED <<boot, schema, lists, writes>>

\* handle_get_todos runs its query and answers.
HandleGetTodos(c) ==
    /\ req[c].pc = "handler"
    /\ req[c].route = "todos"
    /\ \E fault \in {"none"} \cup DbFaults :
         Respond(c, handle_get_todos(todos, req[c].list_id, fault), fault)
    /\ UNCHANGED <<boot, db>>

\* The response has been sent; the connection takes the next request.
Close(c) ==
    /\ req[c].pc = "responded"
    /\ req' = [req EXCEPT ![c] = Idle]
    /\ UNCHANGED <<boot, db>>

Next ==
    \/ ReadConfig
    \/ Connect
    \/ Migrate
    \/ InitLoggingAndRouter
    \/ Bind
    \/ \E r \in ListRows : InsertList(r.id, r.name)
    \/ \E r \in TodoRows, l \in ListIds : InsertTodo(r.id, r.text, r.checked, l)
    \/ \E c \in Conns : RouteLists(c)
    \/ \E c \in Conns, seg \in PathSegs : RouteTodos(c, seg)
    \/ \E c \in Conns : HandleGetLists(c)
    \/ \E c \in Conns : HandleGetTodos(c)
    \/ \E c \in Conns : Close(c)

Spec == Init /\ [][Next]_vars

\* ============================================================ properties
Answered(c)   == req[c].pc = "responded"
ListsReq(c)   == req[c].route = "lists"
TodosReq(c)   == req[c].route = "todos"
QueryOk(c)    == req[c].queried /\ req[c].fault = "none"
Rows(c)       == req[c].body.elems

RowSet(rows)  == {rows[i] : i \in DOMAIN rows}
Ids(rows)     == [i \in DOMAIN rows |-> rows[i].id]

\* Strictly ascending by id.
IsAscending(rows) ==
    \A i \in 1..(Len(rows) - 1) : NumLess(rows[i].id, rows[i+1].id)

\* The text is an integer in decimal: an optional sign, then digits.
IntegerText(seg) ==
    LET digits == IF seg # <<>> /\ Head(seg) \in {"+", "-"} THEN Tail(seg) ELSE seg
    IN  /\ digits # <<>>
        /\ \A i \in DOMAIN digits : to_digit(digits[i]) >= 0

RECURSIVE StripZeros(_)
StripZeros(mag) ==
    IF Len(mag) > 1 /\ Head(mag) = 0 THEN StripZeros(Tail(mag)) ELSE mag

\* The integer an integer text denotes.
TextNum(seg) ==
    LET digits == IF Head(seg) \in {"+", "-"} THEN Tail(seg) ELSE seg
        mag    == StripZeros([i \in DOMAIN digits |-> to_digit(digits[i])])
    IN  Num(Head(seg) = "-" /\ mag # <<0>>, mag)

\* The todos of the list the segment names.
TodosOf(seg) == {t \in RowSet(todos) : t.list_id = TextNum(seg)}

ErrorBody == JsonObject(<< <<"error", "Something went wrong">> >>)

\* C1: a successful GET /lists answers 200 with a JSON array holding exactly
\* the rows of lists, each once, in strictly ascending id order, whatever
\* the insertion order and the names (stated of an answer since which the
\* database has not been written).
C1_ListsExactAscending ==
    \A c \in Conns :
        (Answered(c) /\ ListsReq(c) /\ req[c].status = 200 /\ req[c].fresh)
        => /\ req[c].body.tag = "array"
           /\ IsAscending(Rows(c))
           /\ RowSet(Rows(c)) = RowSet(lists)
           /\ Len(Rows(c)) = Len(lists)

\* Lists 2 then 1 were inserted (names "chores", "groceries") and are
\* answered as 1, 2.
C1_Witness ==
    \E c \in Conns :
        /\ Answered(c) /\ ListsReq(c) /\ req[c].status = 200 /\ req[c].fresh
        /\ Ids(lists) = <<N2, N1>>
        /\ Ids(Rows(c)) = <<N1, N2>>

\* C2: a successful GET /lists/{id}/todos answers 200 with a JSON array
\* holding exactly the todos whose list_id equals id, each once, in strictly
\* ascending todo id order, whatever the insertion order.
C2_TodosExactAscending ==
    \A c \in Conns :
        (Answered(c) /\ TodosReq(c) /\ req[c].status = 200 /\ req[c].fresh)
        => /\ req[c].body.tag = "array"
           /\ IntegerText(req[c].seg)
           /\ IsAscending(Rows(c))
           /\ RowSet(Rows(c)) = TodosOf(req[c].seg)
           /\ Len(Rows(c)) = Cardinality(TodosOf(req[c].seg))

\* Todos 5, 2, 9 of list 1, inserted in that order, are answered as 2, 5, 9.
C2_Witness ==
    \E c \in Conns :
        /\ Answered(c) /\ TodosReq(c) /\ req[c].status = 200 /\ req[c].fresh
        /\ req[c].seg = <<"1">>
        /\ Ids(todos) = <<N5, N2, N9>>
        /\ \A i \in DOMAIN todos : todos[i].list_id = N1
        /\ Ids(Rows(c)) = <<N2, N5, N9>>

\* C3: on a migrated database with no row in lists, GET /lists whose query
\* the database answers responds 200 with the body [].
C3_EmptyListsIs200 ==
    \A c \in Conns :
        (Answered(c) /\ ListsReq(c) /\ QueryOk(c) /\ req[c].fresh /\ lists = <<>>)
        => /\ schema
           /\ req[c].status = 200
           /\ req[c].body = JsonArray(<<>>)

C3_Witness ==
    \E c \in Conns :
        /\ Answered(c) /\ ListsReq(c) /\ QueryOk(c) /\ req[c].fresh
        /\ schema /\ lists = <<>>
        /\ req[c].status = 200

\* C4: for every integer id (of the 64-bit range of List.id) with no todo
\* of that list_id, GET /lists/{id}/todos responds 200 with body [], whether
\* or not a list with that id exists (the data layer not failing).
C4_NoTodosIs200Empty ==
    \A c \in Conns :
        (/\ Answered(c) /\ TodosReq(c) /\ req[c].fresh /\ req[c].fault = "none"
         /\ IntegerText(req[c].seg) /\ InI64(TextNum(req[c].seg))
         /\ TodosOf(req[c].seg) = {})
        => /\ req[c].status = 200
           /\ req[c].body = JsonArray(<<>>)

\* C5: whenever the data layer fails during a request, whatever the error,
\* the response is 500 with the body {"error":"Something went wrong"}.
C5_FailureIsOpaque500 ==
    \A c \in Conns :
        (Answered(c) /\ req[c].fault # "none")
        => /\ req[c].status = 500
           /\ req[c].body = ErrorBody

\* Both routes have failed, with different errors, while the tables hold
\* rows the query would have returned.
C5_Witness ==
    \E c, d \in Conns :
        /\ Answered(c) /\ ListsReq(c) /\ req[c].fault = "pool timed out"
        /\ Answered(d) /\ TodosReq(d) /\ req[d].fault = "unable to open database file"
        /\ lists # <<>>
        /\ req[d].fresh /\ TodosOf(req[d].seg) # {}
        /\ req[c].body = req[d].body

\* C6: whenever a data-access error occurs while a request is handled, the
\* detail of the error is in the server's log once the 500 is produced.
C6_FailureDetailLogged ==
    \A c \in Conns :
        (Answered(c) /\ req[c].fault # "none")
        => \E line \in req[c].log : \E i \in DOMAIN line : line[i] = req[c].fault

\* C7: GET /lists/{id}/todos with a segment that is not an integer responds
\* 400 and the data layer is not queried.
C7_NonIntegerIs400 ==
    \A c \in Conns :
        (req[c].pc # "idle" /\ TodosReq(c) /\ ~IntegerText(req[c].seg))
        => /\ Answered(c)
           /\ req[c].status = 400
           /\ ~req[c].queried

C7_Witness ==
    \E c \in Conns :
        /\ Answered(c) /\ TodosReq(c)
        /\ req[c].seg = <<"a", "b", "c">>
        /\ req[c].status = 400
        /\ todos # <<>>

\* C8: for every 64-bit integer L and every todo stored with list_id = L,
\* GET /lists/L/todos is not rejected with 400 and, when the query succeeds,
\* responds 200 with that todo in the body.
C8_PathCoversListIdRange ==
    \A c \in Conns :
        (/\ Answered(c) /\ TodosReq(c) /\ req[c].fresh
         /\ IntegerText(req[c].seg) /\ InI64(TextNum(req[c].seg))
         /\ TodosOf(req[c].seg) # {})
        => /\ req[c].status # 400
           /\ req[c].fault = "none" =>
                /\ req[c].status = 200
                /\ TodosOf(req[c].seg) \subseteq RowSet(Rows(c))

Range(seq) == {seq[i] : i \in DOMAIN seq}

\* C9: the listener is bound and a request accepted only after the
\* connection string was read, the pool opened and the migrations applied,
\* in that order; when one of the three fails the process terminates
\* without binding the listener or serving a request.
C9_StartupOrder ==
    /\ (pc = "serving" \/ "bind" \in Range(done) \/ \E c \in Conns : req[c].pc # "idle")
       => /\ Len(done) >= 3
          /\ SubSeq(done, 1, 3) = <<"config", "connect", "migrate">>
          /\ schema
    /\ failure \in {"config", "connect", "migrate"}
       => /\ pc = "exited"
          /\ "bind" \notin Range(done)
          /\ \A c \in Conns : req[c].pc = "idle"
    /\ (pc \notin {"start", "configured", "connected", "exited"}) => schema

\* The listener is bound and a request has been answered.
C9_Witness ==
    /\ pc = "serving"
    /\ done = <<"config", "connect", "migrate", "logging", "router", "bind">>
    /\ \E c \in Conns : Answered(c)

\* The same request answered twice with no write in between.
SameAnswer(c, d) ==
    (/\ Answered(c) /\ Answered(d)
     /\ req[c].route = req[d].route /\ req[c].seg = req[d].seg
     /\ req[c].fresh /\ req[d].fresh
     /\ req[c].fault = "none" /\ req[d].fault = "none")
    => /\ req[c].status = req[d].status
       /\ req[c].body = req[d].body

\* C10: once serving, no step other than a write of the database's
\* environment changes the rows of lists or todos, and the same GET request
\* answered twice with no write in between has the same body.
C10_ReadOnly ==
    /\ [][(pc = "serving" /\ writes' = writes)
            => (lists' = lists /\ todos' = todos)]_vars
    /\ [](\A c, d \in Conns : SameAnswer(c, d))

\* Two connections hold the answer to GET /lists/1/todos, with rows.
C10_Witness ==
    /\ Answered("c1") /\ Answered("c2")
    /\ TodosReq("c1") /\ TodosReq("c2")
    /\ req["c1"].seg = <<"1">> /\ req["c2"].seg = <<"1">>
    /\ req["c1"].fresh /\ req["c2"].fresh
    /\ req["c1"].status = 200 /\ req["c2"].status = 200
    /\ Len(Rows("c1")) >= 2

====
